---- MODULE Spec2Model ----
(***************************************************************************)
(* Model of src/main.go: the marks-sheet pipeline                          *)
(*   processFile  -> parseRow -> extractBranch / isWithinTolerance          *)
(*   printResults -> printTopStudents -> sortByComponent / min              *)
(*                                                                         *)
(* Text is a sequence of one-character strings, so that len(s) and s[:6]   *)
(* are Len and SubSeq.  A row is a sequence of cells; Go's row[k] is       *)
(* row[k+1] here.  Marks are kept in hundredths (105.02 is 10502), the     *)
(* resolution of the tolerance 0.01 and of the %.2f report; cells are      *)
(* plain decimal literals with at most two fractional digits, or text      *)
(* that is no number.  Literals out of float64's range and the literals    *)
(* "Inf"/"NaN" are outside the modelled cell alphabet.  Sums and           *)
(* differences are exact; the cells of the sheets below are such that the  *)
(* float64 evaluation of the tolerance test gives the same answer.         *)
(***************************************************************************)
EXTENDS Integers, Sequences, FiniteSets, TLC

VARIABLES pc, i, cur, res, students, branchSums, branchCounts,
          totalSum, totalCount, log, comp, sorted, top, avgs

vars == <<pc, i, cur, res, students, branchSums, branchCounts,
          totalSum, totalCount, log, comp, sorted, top, avgs>>

\* Largest number of data rows (after the header) a sheet holds in the model.
MaxRows == 3

\* const tolerance = 0.01, in hundredths.
tolerance == 1

\* processFile: len(row) < 10
MinFields == 10

\* extractBranch: len(campusID) < 6, campusID[:6]; parseRow: len(branch) < 6
PrefixLen == 6

\* printTopStudents: sorted[:min(3, len(sorted))]
TopN == 3

\* parseRow: the row positions read: row[2], row[3], row[4..7], row[9], row[10]
Positions == {2, 3, 4, 5, 6, 7, 9, 10}

\* printTopStudents: the six entries of components, in order
NumComponents == 6

branchMap ==
    (<<"2", "0", "2", "1", "A", "2">> :> "Civil 2021") @@
    (<<"2", "0", "2", "4", "A", "3">> :> "EEE 2024") @@
    (<<"2", "0", "2", "4", "A", "4">> :> "Mechanical 2024") @@
    (<<"2", "0", "2", "4", "A", "5">> :> "Pharma 2024") @@
    (<<"2", "0", "2", "4", "A", "7">> :> "CSE 2024") @@
    (<<"2", "0", "2", "4", "A", "8">> :> "ENI 2024") @@
    (<<"2", "0", "2", "4", "A", "A">> :> "ECE 2024") @@
    (<<"2", "0", "2", "4", "A", "D">> :> "MnC 2024") @@
    (<<"2", "0", "2", "4", "B", "1">> :> "MSc Biology") @@
    (<<"2", "0", "2", "0", "B", "5">> :> "MSc Physics 2020") @@
    (<<"2", "0", "2", "1", "A", "7">> :> "CSE 2021") @@
    (<<"2", "0", "2", "2", "A", "7">> :> "CSE 2022") @@
    (<<"2", "0", "2", "3", "A", "7">> :> "CSE 2023") @@
    (<<"2", "0", "2", "1", "A", "8">> :> "ENI 2021") @@
    (<<"2", "0", "2", "1", "A", "A">> :> "ECE 2021") @@
    (<<"2", "0", "2", "1", "B", "1">> :> "Msc Biology 2021") @@
    (<<"2", "0", "2", "1", "B", "4">> :> "Msc Maths 2021") @@
    (<<"2", "0", "2", "1", "B", "5">> :> "Msc Physics 2021") @@
    (<<"2", "0", "2", "2", "A", "1">> :> "Chemical 2022") @@
    (<<"2", "0", "2", "2", "A", "2">> :> "Civil 2022") @@
    (<<"2", "0", "2", "2", "A", "3">> :> "EEE 2022") @@
    (<<"2", "0", "2", "2", "A", "4">> :> "Mechanical 2022") @@
    (<<"2", "0", "2", "2", "A", "A">> :> "ECE 2022") @@
    (<<"2", "0", "2", "2", "B", "2">> :> "MSc Chemistry 2022") @@
    (<<"2", "0", "2", "3", "A", "5">> :> "Pharma 2023") @@
    (<<"2", "0", "2", "3", "A", "8">> :> "ENI 2023")

----------------------------------------------------------------------------
(* strconv.ParseFloat(s, 64) on the modelled cell alphabet, error dropped. *)

DigitVal ==
    ("0" :> 0) @@ ("1" :> 1) @@ ("2" :> 2) @@ ("3" :> 3) @@ ("4" :> 4) @@
    ("5" :> 5) @@ ("6" :> 6) @@ ("7" :> 7) @@ ("8" :> 8) @@ ("9" :> 9)

IsDigits(s) == \A k \in 1..Len(s) : s[k] \in DOMAIN DigitVal

RECURSIVE NatOf(_)
NatOf(s) ==
    IF Len(s) = 0 THEN 0
    ELSE 10 * NatOf(SubSeq(s, 1, Len(s) - 1)) + DigitVal[s[Len(s)]]

\* The fraction digits as hundredths.
FracOf(f) ==
    IF Len(f) = 0 THEN 0
    ELSE IF Len(f) = 1 THEN 10 * DigitVal[f[1]]
    ELSE 10 * DigitVal[f[1]] + DigitVal[f[2]]

\* An unsigned decimal: digits, optionally one point, at least one digit.
Unsigned(s) ==
    LET dots == {k \in 1..Len(s) : s[k] = "."}
    IN  IF dots = {}
        THEN IF Len(s) > 0 /\ IsDigits(s)
             THEN [val |-> 100 * NatOf(s), err |-> FALSE]
             ELSE [val |-> 0, err |-> TRUE]
        ELSE LET d  == CHOOSE k \in dots : \A m \in dots : k <= m
                 ip == SubSeq(s, 1, d - 1)
                 fp == SubSeq(s, d + 1, Len(s))
             IN  IF IsDigits(ip) /\ IsDigits(fp) /\ Len(ip) + Len(fp) > 0
                 THEN [val |-> 100 * NatOf(ip) + FracOf(fp), err |-> FALSE]
                 ELSE [val |-> 0, err |-> TRUE]

\* The leading digits of s.
RECURSIVE LeadingDigits(_)
LeadingDigits(s) ==
    IF Len(s) = 0 \/ Head(s) \notin DOMAIN DigitVal THEN <<>>
    ELSE <<Head(s)>> \o LeadingDigits(Tail(s))

\* Fault variant of ParseFloat: on a syntax error the value of the leading
\* digits is returned (as C's atof does) in place of 0.
ParseFloatPrefix(s) ==
    LET u == Unsigned(s)
    IN  IF ~u.err THEN u
        ELSE [val |-> 100 * NatOf(LeadingDigits(s)), err |-> TRUE]

\* ParseFloat returns 0 and a syntax error for text that is no number.
ParseFloat(s) ==
    IF Len(s) > 0 /\ s[1] \in {"+", "-"}
    THEN LET u == Unsigned(Tail(s))
         IN  IF s[1] = "-" THEN [val |-> 0 - u.val, err |-> u.err] ELSE u
    ELSE Unsigned(s)

----------------------------------------------------------------------------
(* extractBranch, isWithinTolerance, parseRow                              *)

\* Fault variant of extractBranch: the prefix is returned without being
\* looked up in branchMap.
extractBranchNoLookup(campusID) ==
    IF Len(campusID) < PrefixLen THEN <<>>
    ELSE SubSeq(campusID, 1, PrefixLen)

extractBranch(campusID) ==
    IF Len(campusID) < PrefixLen THEN <<>>
    ELSE LET branch == SubSeq(campusID, 1, PrefixLen)
         IN  IF branch \in DOMAIN branchMap THEN branch ELSE <<>>

Abs(x) == IF x < 0 THEN 0 - x ELSE x

\* Fault variant of isWithinTolerance: < in place of <=.
isWithinToleranceStrict(a, b) == Abs(a - b) < tolerance

isWithinTolerance(a, b) == Abs(a - b) <= tolerance

\* row[k] of Go
At(row, k) == row[k + 1]

NoStudent ==
    [EmpID |-> <<>>, Branch |-> <<>>, Quiz |-> 0, MidSem |-> 0, LabTest |-> 0,
     WeeklyLabs |-> 0, Compre |-> 0, Total |-> 0]

BranchLine(campusID) ==
    [kind |-> "branch", campusID |-> campusID, empID |-> <<>>,
     expected |-> 0, found |-> 0]

TotalLine(empID, expected, found) ==
    [kind |-> "total", campusID |-> <<>>, empID |-> empID,
     expected |-> expected, found |-> found]

\* The Student literal of parseRow.
MkStudent(empID, branch, quiz, midSem, labTest, weeklyLabs, compre, total) ==
    [EmpID |-> empID, Branch |-> branch, Quiz |-> quiz, MidSem |-> midSem,
     LabTest |-> labTest, WeeklyLabs |-> weeklyLabs, Compre |-> compre,
     Total |-> total]

\* preCompre + compre
calculatedTotal(quiz, midSem, labTest, weeklyLabs, compre) ==
    (quiz + midSem + labTest + weeklyLabs) + compre

\* [status, student, lines]: status "panic" is the index-out-of-range run-time
\* panic of a row[k] with k >= len(row); lines are the log lines printed.
parseRow(row) ==
    IF \E k \in Positions : k >= Len(row)
    THEN [status |-> "panic", student |-> NoStudent, lines |-> <<>>]
    ELSE
      LET empID      == At(row, 2)
          campusID   == At(row, 3)
          quiz       == ParseFloat(At(row, 4)).val
          midSem     == ParseFloat(At(row, 5)).val
          labTest    == ParseFloat(At(row, 6)).val
          weeklyLabs == ParseFloat(At(row, 7)).val
          compre     == ParseFloat(At(row, 9)).val
          total      == ParseFloat(At(row, 10)).val
          branch     == extractBranch(campusID)
          calc       == calculatedTotal(quiz, midSem, labTest, weeklyLabs, compre)
      IN  IF Len(branch) < PrefixLen
          THEN [status |-> "invalid", student |-> NoStudent,
                lines |-> <<BranchLine(campusID)>>]
          ELSE [status |-> "valid",
                student |-> MkStudent(empID, branch, quiz, midSem, labTest,
                                      weeklyLabs, compre, total),
                lines |-> IF isWithinTolerance(calc, total) THEN <<>>
                          ELSE <<TotalLine(empID, calc, total)>>]

----------------------------------------------------------------------------
(* The sheet: rows the spreadsheet reader can hand to processFile.         *)

IdDigits == <<"1", "2", "3", "4", "5", "6", "7", "8", "9">>

EmpIdCell(n) == <<"E", IdDigits[n]>>

CampusA       == <<"2", "0", "2", "4", "A", "7", "P", "S">>
CampusB       == <<"2", "0", "2", "1", "B", "4">>
CampusShort   == <<"2", "0", "2", "4", "A">>
CampusUnknown == <<"2", "0", "1", "9", "A", "7", "P", "S">>

\* quiz, midSem, labTest, weeklyLabs, compre, total
PExact == << <<"1","0">>, <<"2","0">>, <<"3","0">>, <<"5">>, <<"4","0">>,
             <<"1","0","5">> >>
PTie   == << <<"1","0">>, <<"2","5">>, <<"3","0">>, <<"5">>, <<"4","5">>,
             <<"1","1","5">> >>
PNear  == << <<"1","2">>, <<"1","8">>, <<"8">>, <<"6">>, <<"1","2">>,
             <<"5","6",".","0","1">> >>
PFar   == << <<"8",".","5">>, <<"2","0">>, <<"3","0">>, <<"5">>, <<"4","0">>,
             <<"1","0","3",".","5","2">> >>
PBadA  == << <<"a","b">>, <<"2","0">>, <<"1","x">>, <<"5">>,
             <<"4",".","5",".">>, <<"2","5">> >>
PBadB  == << <<"1","0">>, <<>>, <<"3","0">>, <<"-","-","5">>, <<"4","0">>,
             <<"n","/","a">> >>

Filler == <<"x">>

\* A row of n cells laid out by the sheet's schema.
MkRow(n, id, campusID, p) ==
    [k \in 1..n |->
        CASE k - 1 = 2  -> id
          [] k - 1 = 3  -> campusID
          [] k - 1 = 4  -> p[1]
          [] k - 1 = 5  -> p[2]
          [] k - 1 = 6  -> p[3]
          [] k - 1 = 7  -> p[4]
          [] k - 1 = 9  -> p[5]
          [] k - 1 = 10 -> p[6]
          [] OTHER      -> Filler]

HeaderRow == [k \in 1..11 |-> <<"h">>]

\* The rows that can stand at position n of the sheet.
InputRows(n) ==
    IF n = 0 THEN {HeaderRow}
    ELSE LET id == EmpIdCell(n)
         IN  { MkRow(11, id, CampusA, PExact),
               MkRow(11, id, CampusA, PTie),
               MkRow(11, id, CampusB, PNear),
               MkRow(12, id, CampusB, PFar),
               MkRow(11, id, CampusA, PBadA),
               MkRow(11, id, CampusB, PBadB),
               MkRow(11, id, CampusShort, PExact),
               MkRow(11, id, CampusUnknown, PExact),
               MkRow(9,  id, CampusA, PExact),
               MkRow(10, id, CampusA, PExact),
               MkRow(10, id, CampusUnknown, PExact) }

----------------------------------------------------------------------------
(* Go maps with the zero value for a missing key                           *)

\* Fault variant of MapGet, as when = stands in place of += and ++.
MapGetZero(m, k) == 0

MapGet(m, k) == IF k \in DOMAIN m THEN m[k] ELSE 0

MapPut(m, k, v) == [x \in DOMAIN m \cup {k} |-> IF x = k THEN v ELSE m[x]]

----------------------------------------------------------------------------
(* Ranking                                                                 *)

\* comp.getVal of the k-th entry of components
getVal(k, s) ==
    CASE k = 1 -> s.Quiz
      [] k = 2 -> s.MidSem
      [] k = 3 -> s.LabTest
      [] k = 4 -> s.WeeklyLabs
      [] k = 5 -> s.Compre
      [] k = 6 -> s.Total

\* the less function handed to sort.Slice
less(k, a, b) == getVal(k, a) > getVal(k, b)

\* sort.Slice: the slice rearranged so that no element is less than one
\* before it.  The order of elements neither of which is less than the
\* other is not fixed by sort.Slice ("not guaranteed to be stable").
SortSlice(s, k) ==
    { [j \in 1..Len(s) |-> s[p[j]]] : p \in
        { q \in Permutations(1..Len(s)) :
            \A a, b \in 1..Len(s) : a < b => ~less(k, s[q[b]], s[q[a]]) } }

\* Fault variant of sortByComponent: sorted aliases students (no copy), so
\* the sort rearranges the caller's slice.
sortByComponentInPlace(s, k) ==
    { [arg |-> r, ret |-> r] : r \in SortSlice(s, k) }

\* sortByComponent: [arg, ret]: the caller's slice after the call, and the
\* slice returned.  append([]Student{}, students...) copies, so the sort
\* rearranges the copy only.
sortByComponent(s, k) ==
    { [arg |-> s, ret |-> r] : r \in SortSlice(s, k) }

\* Fault variant of min: the bound is not clamped to the length.
minUnclamped(a, b) == a

min(a, b) == IF a < b THEN a ELSE b

----------------------------------------------------------------------------
(* The program                                                             *)

Init ==
    /\ pc = "rows"
    /\ i = 0
    /\ cur = <<>>
    /\ res = "none"
    /\ students = <<>>
    /\ branchSums = <<>>
    /\ branchCounts = <<>>
    /\ totalSum = 0
    /\ totalCount = 0
    /\ log = <<>>
    /\ comp = 1
    /\ sorted = <<>>
    /\ top = <<>>
    /\ avgs = {}

\* The body of processFile's loop, on a row standing at index i.
loopBody(row) ==
    /\ cur' = row
    /\ IF i = 0 \/ Len(row) < MinFields
       THEN /\ res' = "skip"
            /\ i' = i + 1
            /\ UNCHANGED <<pc, students, branchSums, branchCounts,
                           totalSum, totalCount, log>>
       ELSE LET r == parseRow(row)
                s == r.student
            IN  CASE r.status = "panic" ->
                       /\ res' = "panic"
                       /\ pc' = "panic"
                       /\ UNCHANGED <<i, students, branchSums, branchCounts,
                                      totalSum, totalCount, log>>
                  [] r.status = "invalid" ->
                       /\ res' = "invalid"
                       /\ i' = i + 1
                       /\ log' = log \o r.lines
                       /\ UNCHANGED <<pc, students, branchSums,
                                      branchCounts, totalSum, totalCount>>
                  [] r.status = "valid" ->
                       /\ res' = "accepted"
                       /\ i' = i + 1
                       /\ log' = log \o r.lines
                       /\ students' = Append(students, s)
                       /\ branchSums' = MapPut(branchSums, s.Branch,
                              MapGet(branchSums, s.Branch) + s.Total)
                       /\ branchCounts' = MapPut(branchCounts, s.Branch,
                              MapGet(branchCounts, s.Branch) + 1)
                       /\ totalSum' = totalSum + s.Total
                       /\ totalCount' = totalCount + 1
                       /\ UNCHANGED pc

\* One iteration of processFile's loop over rows, on the row at index i.
ProcessRow ==
    /\ pc = "rows"
    /\ i <= MaxRows
    /\ \E row \in InputRows(i) : loopBody(row)
    /\ UNCHANGED <<comp, sorted, top, avgs>>

\* The loop over rows ends; processFile returns and printResults starts.
EndRows ==
    /\ pc = "rows"
    /\ pc' = "report"
    /\ UNCHANGED <<i, cur, res, students, branchSums, branchCounts,
                   totalSum, totalCount, log, comp, sorted, top, avgs>>

\* One iteration of printTopStudents' loop over components.  sorted[:n]
\* panics when n exceeds len(sorted).
RankComponent ==
    /\ pc = "report"
    /\ comp <= NumComponents
    /\ \E r \in sortByComponent(students, comp) :
         LET n == min(TopN, Len(r.ret))
         IN  /\ students' = r.arg
             /\ sorted' = r.ret
             /\ IF n > Len(r.ret)
                THEN /\ pc' = "panic"
                     /\ UNCHANGED <<top, comp>>
                ELSE /\ top' = SubSeq(r.ret, 1, n)
                     /\ comp' = comp + 1
                     /\ UNCHANGED pc
    /\ UNCHANGED <<i, cur, res, branchSums, branchCounts,
                   totalSum, totalCount, log, avgs>>

\* sum / float64(count): the operands, and whether the quotient is NaN
\* (0/0) and not a number to print.
Average(name, sum, count) ==
    [name |-> name, sum |-> sum, count |-> count, nan |-> (count = 0 /\ sum = 0)]

\* printResults after the rankings: the overall and the per-branch averages.
PrintAverages ==
    /\ pc = "report"
    /\ comp > NumComponents
    /\ avgs' = {Average(<<>>, totalSum, totalCount)} \cup
               {Average(b, branchSums[b], MapGet(branchCounts, b)) :
                    b \in DOMAIN branchSums}
    /\ pc' = "done"
    /\ UNCHANGED <<i, cur, res, students, branchSums, branchCounts,
                   totalSum, totalCount, log, comp, sorted, top>>

Next == ProcessRow \/ EndRows \/ RankComponent \/ PrintAverages

Spec == Init /\ [][Next]_vars

----------------------------------------------------------------------------
(* The report on its own: printResults applied to what processFile returns *)
(* for sheets of accepted rows, longer than the sheets of Spec.            *)

\* Largest number of data rows of a sheet handed to the report on its own.
MaxRank == 4

\* The accepted rows that can stand at position n of such a sheet.
RankRows(n) ==
    IF n = 0 THEN {HeaderRow}
    ELSE LET id == EmpIdCell(n)
         IN  { MkRow(11, id, CampusA, PExact),
               MkRow(11, id, CampusA, PTie),
               MkRow(11, id, CampusB, PNear) }

\* One iteration of processFile's loop, on such a sheet.
ProcessRankRow ==
    /\ pc = "rows"
    /\ i <= MaxRank
    /\ \E row \in RankRows(i) : loopBody(row)
    /\ UNCHANGED <<comp, sorted, top, avgs>>

NextRank == ProcessRankRow \/ EndRows \/ RankComponent \/ PrintAverages

SpecRank == Init /\ [][NextRank]_vars

----------------------------------------------------------------------------
(* Vocabulary of the properties                                            *)

\* A step of the loop that handled a data row: the row is cur'.
RowStep == pc = "rows" /\ i >= 1 /\ (i' = i + 1 \/ pc' = "panic")

KeyOf(row) == At(row, 3)

BadKey(row) ==
    \/ Len(KeyOf(row)) < PrefixLen
    \/ SubSeq(KeyOf(row), 1, PrefixLen) \notin DOMAIN branchMap

\* The row has every position of the schema, the declared total included.
HasAllFields(row) == Len(row) > 10

AggregatesUnchanged ==
    /\ students' = students
    /\ branchSums' = branchSums
    /\ branchCounts' = branchCounts
    /\ totalSum' = totalSum
    /\ totalCount' = totalCount

\* The entry of map m at key k, 0 when absent.
ValueAt(m, k) == IF k \in DOMAIN m THEN m[k] ELSE 0

Last(s) == s[Len(s)]

ComponentSum(s) == s.Quiz + s.MidSem + s.LabTest + s.WeeklyLabs + s.Compre

Discrepancy(s) == Abs(ComponentSum(s) - s.Total)

Score(k, s) == <<s.Quiz, s.MidSem, s.LabTest, s.WeeklyLabs, s.Compre, s.Total>>[k]

\* The component the last ranking was made for.
Ranked == comp - 1

RankingMade == pc \in {"report", "done"} /\ comp > 1

RECURSIVE SumTotals(_, _)
SumTotals(s, b) ==
    IF s = <<>> THEN 0
    ELSE (IF Head(s).Branch = b THEN Head(s).Total ELSE 0) + SumTotals(Tail(s), b)

RECURSIVE SumOver(_, _)
SumOver(m, keys) ==
    IF keys = {} THEN 0
    ELSE LET k == CHOOSE x \in keys : TRUE
         IN  m[k] + SumOver(m, keys \ {k})

BranchesOf(s) == {s[k].Branch : k \in 1..Len(s)}

CountOf(s, b) == Cardinality({k \in 1..Len(s) : s[k].Branch = b})

\* The place of record r in list s (records differ by EmpID in every sheet).
PlaceIn(s, r) == CHOOSE k \in 1..Len(s) : s[k] = r

----------------------------------------------------------------------------
(* C1: every data row handed to parseRow whose classification key is       *)
(* shorter than 6 characters, or whose first 6 characters are no key of    *)
(* branchMap, makes parseRow return invalid, and processFile appends no    *)
(* record and leaves branchSums, branchCounts, totalSum and totalCount as  *)
(* they were.                                                              *)
C1_BadKeyRejected ==
    [][RowStep /\ Len(cur') >= MinFields /\ BadKey(cur')
         => res' = "invalid" /\ AggregatesUnchanged]_vars

(* C2: after any prefix of the rows, every accepted record has a non-empty *)
(* Branch that is a key of branchMap and is the first 6 characters of its  *)
(* row's classification key; every key of branchSums and branchCounts is a *)
(* key of branchMap.                                                       *)
C2_BranchesKnown ==
    /\ [](/\ \A k \in 1..Len(students) :
               /\ students[k].Branch # <<>>
               /\ students[k].Branch \in DOMAIN branchMap
          /\ DOMAIN branchSums \subseteq DOMAIN branchMap
          /\ DOMAIN branchCounts \subseteq DOMAIN branchMap)
    /\ [][RowStep =>
            \/ students' = students
            \/ /\ students' = Append(students, Last(students'))
               /\ Len(KeyOf(cur')) >= PrefixLen
               /\ Last(students').Branch = SubSeq(KeyOf(cur'), 1, PrefixLen)]_vars

C2_Witness ==
    /\ Len(students) >= 2
    /\ students[1].Branch # students[2].Branch
    /\ \E k \in 1..Len(log) : log[k].kind = "branch"
    /\ res = "accepted"
    /\ Len(KeyOf(cur)) > PrefixLen

C4_AggregatesConsistent ==
    /\ [](/\ DOMAIN branchCounts = BranchesOf(students)
          /\ DOMAIN branchSums = BranchesOf(students)
          /\ \A b \in DOMAIN branchMap :
               /\ ValueAt(branchCounts, b) = CountOf(students, b)
               /\ ValueAt(branchSums, b) = SumTotals(students, b)
          /\ totalCount = Len(students)
          /\ totalCount = SumOver(branchCounts, DOMAIN branchCounts)
          /\ totalSum = SumOver(branchSums, DOMAIN branchSums))
    /\ [][/\ totalCount' >= totalCount
          /\ \A b \in DOMAIN branchCounts :
               b \in DOMAIN branchCounts' /\ branchCounts'[b] >= branchCounts[b]]_vars

C4_Witness ==
    /\ Len(students) = 3
    /\ Cardinality(DOMAIN branchCounts) = 2
    /\ \E b \in DOMAIN branchCounts : branchCounts[b] = 2
    /\ \E k \in 1..Len(students) : Discrepancy(students[k]) > tolerance
    /\ i > 3

(* C5: no row content aborts the run: a data row of any length is either   *)
(* accepted or skipped and the loop goes on to the next row; a row of      *)
(* fewer than 10 fields is skipped without a log line.                     *)
C5_NoRowAborts ==
    [][RowStep =>
         /\ pc' = "rows"
         /\ i' = i + 1
         /\ res' \in {"skip", "invalid", "accepted"}
         /\ (Len(cur') < MinFields => res' = "skip" /\ log' = log)]_vars

(* C6: an average of a group with no accepted record (the overall average  *)
(* when totalCount = 0, a branch of count 0) is never computed by the      *)
(* division sum / count with count = 0.                                    *)
C6_NoDivisionByZero == \A a \in avgs : a.count # 0 /\ ~a.nan

(* C7: ranking is stable: two records of equal score stand in the output   *)
(* of sortByComponent in the order they have in the record list.           *)
C7_RankingStable ==
    RankingMade =>
        \A a, b \in 1..Len(students) :
            (a < b /\ Score(Ranked, students[a]) = Score(Ranked, students[b]))
                => PlaceIn(sorted, students[a]) < PlaceIn(sorted, students[b])

(* C8: the top-3 listing has min(3, number of records) entries, in         *)
(* non-increasing score; every listed record is a record of the list; no   *)
(* unlisted record has a score above a listed one; with fewer than 3       *)
(* records all are listed and no slice bound is exceeded.                  *)
C8_TopThree ==
    /\ pc = "panic" => res = "panic"
    /\ RankingMade =>
        /\ Len(top) = (IF Len(students) < TopN THEN Len(students) ELSE TopN)
        /\ \A a, b \in 1..Len(top) :
              a < b => Score(Ranked, top[a]) >= Score(Ranked, top[b])
        /\ \A a \in 1..Len(top) : \E k \in 1..Len(students) : top[a] = students[k]
        /\ \A a, b \in 1..Len(top) : a # b => top[a] # top[b]
        /\ \A k \in 1..Len(students) :
              (\A a \in 1..Len(top) : top[a] # students[k])
                 => \A a \in 1..Len(top) :
                       Score(Ranked, students[k]) <= Score(Ranked, top[a])

C8_Witness ==
    /\ RankingMade
    /\ Len(students) = 4
    /\ Len(top) = TopN
    /\ top # SubSeq(students, 1, TopN)
    /\ Score(Ranked, students[1]) < Score(Ranked, top[TopN])

C8_WitnessFew ==
    RankingMade /\ Len(students) = 2 /\ Len(top) = 2 /\ top[1] = students[2]

C10_RankingLeavesRecords ==
    [][pc = "report" => AggregatesUnchanged /\ log' = log]_vars

C10_Witness ==
    /\ pc = "done"
    /\ Len(students) >= 2
    /\ sorted # students

====
